---- MODULE Spec2Model ----
(***************************************************************************)
(* Model of tax_calculator_AllofCanada.py: the progressive-bracket tax     *)
(* function calculate_tax, the bracket tables it is applied to, and the    *)
(* Streamlit script main() that computes the deductions, the net income    *)
(* and the per-province comparison table.                                  *)
(*                                                                         *)
(* Numbers.  Incomes and thresholds are whole dollars.  A rate r of the    *)
(* source (0.15, 0.0506, ...) is the integer r * 10000.  A money amount is *)
(* the record [d, f] standing for d + f/10000 dollars with 0 <= f < 10000, *)
(* so that every product threshold * rate is exact and no intermediate     *)
(* value leaves the 32-bit range.  An amount scaled by the multiplier      *)
(* 1/frequency_factor is the exact fraction [amt, div] = amt / div.        *)
(***************************************************************************)
EXTENDS Integers, Sequences, FiniteSets, TLC

VARIABLES
    \* widgets of main()
    province, income_type, income_input, output_frequency,
    show_federal_tax, show_prov_tax, show_cpp, show_ei,
    \* the value st.button returned in the last run of the script
    button,
    \* locals of main() at the end of the last run
    income, federal_tax, provincial_tax, cpp, ei, net_income, frequency_factor,
    \* what the last run put on the page: the st.write lines and the table
    written, df,
    \* a direct use of calculate_tax: the table passed and the last calls
    table, calls

vars ==
    <<province, income_type, income_input, output_frequency,
      show_federal_tax, show_prov_tax, show_cpp, show_ei, button,
      income, federal_tax, provincial_tax, cpp, ei, net_income,
      frequency_factor, written, df, table, calls>>

uiVars ==
    <<province, income_type, income_input, output_frequency,
      show_federal_tax, show_prov_tax, show_cpp, show_ei, button,
      income, federal_tax, provincial_tax, cpp, ei, net_income,
      frequency_factor, written, df>>

taxVars ==
    <<table, calls>>

-----------------------------------------------------------------------------
(* Bounds of the model *)

\* incomes passed to calculate_tax lie within MaxDelta dollars of a threshold
MaxDelta ==
    1

\* how many of IncomeSamples can be typed into the income field
MaxIncomeSamples ==
    8

\* how many past calls of calculate_tax are remembered
MaxCalls ==
    2

-----------------------------------------------------------------------------
(* Exact money arithmetic *)

Dollars(n) ==
    [d |-> n, f |-> 0]

MNorm(d, f) ==
    [d |-> d + (f \div 10000), f |-> f % 10000]

MAdd(a, b) ==
    MNorm(a.d + b.d, a.f + b.f)

MSub(a, b) ==
    MNorm(a.d - b.d, a.f - b.f)

MLeq(a, b) ==
    a.d < b.d \/ (a.d = b.d /\ a.f <= b.f)

MLess(a, b) ==
    a.d < b.d \/ (a.d = b.d /\ a.f < b.f)

\* k times an amount, k a small natural number
MScale(a, k) ==
    MNorm(a.d * k, a.f * k)

\* dollars * rate, the rate given in ten-thousandths
MulRate(dollars, rate) ==
    MNorm((dollars \div 10000) * rate, (dollars % 10000) * rate)

\* amt / div as an exact fraction
Scaled(amt, div) ==
    [amt |-> amt, div |-> div]

RatEq(x, y) ==
    MScale(x.amt, y.div) = MScale(y.amt, x.div)

-----------------------------------------------------------------------------
(* The tables of the source *)

FEDERAL_BRACKETS ==
    <<50197, 100392, 155625, 221708>>

FEDERAL_RATES ==
    <<1500, 2050, 2600, 2900, 3300>>

PROVINCIAL_TAX_INFO ==
    "Alberta" :>
        [brackets |-> <<131220, 157464, 209952, 314928>>,
         rates |-> <<1000, 1200, 1300, 1400, 1500>>] @@
    "British Columbia" :>
        [brackets |-> <<43070, 86141, 98901, 120094, 162832>>,
         rates |-> <<506, 770, 1050, 1229, 1470, 1680>>] @@
    "Manitoba" :>
        [brackets |-> <<34670, 73710>>,
         rates |-> <<1080, 1275, 1740>>] @@
    "New Brunswick" :>
        [brackets |-> <<45277, 90556, 138491, 160776>>,
         rates |-> <<968, 1482, 1652, 1784, 2030>>] @@
    "Newfoundland and Labrador" :>
        [brackets |-> <<39222, 78447, 139780, 200000>>,
         rates |-> <<870, 1450, 1580, 1830, 2100>>] @@
    "Northwest Territories" :>
        [brackets |-> <<45629, 91259, 147667>>,
         rates |-> <<590, 860, 1220, 1405>>] @@
    "Nova Scotia" :>
        [brackets |-> <<29590, 59180, 93000, 150000>>,
         rates |-> <<879, 1495, 1667, 1750, 2100>>] @@
    "Nunavut" :>
        [brackets |-> <<48229, 96458, 156183>>,
         rates |-> <<400, 700, 900, 1150>>] @@
    "Ontario" :>
        [brackets |-> <<46226, 92454, 150000, 220000>>,
         rates |-> <<505, 915, 1116, 1216, 1316>>] @@
    "Prince Edward Island" :>
        [brackets |-> <<31984, 63969>>,
         rates |-> <<980, 1380, 1670>>] @@
    "Quebec" :>
        [brackets |-> <<46295, 92595, 113785, 108390>>,
         rates |-> <<1500, 2000, 2400, 2575>>] @@
    "Saskatchewan" :>
        [brackets |-> <<46677, 133638>>,
         rates |-> <<1050, 1250, 1450>>] @@
    "Yukon" :>
        [brackets |-> <<51296, 102592, 155625, 500000>>,
         rates |-> <<640, 900, 1090, 1280, 1500>>]

\* list(PROVINCIAL_TAX_INFO.keys()): the keys in insertion order
ProvinceKeys ==
    <<"Alberta", "British Columbia", "Manitoba", "New Brunswick",
      "Newfoundland and Labrador", "Northwest Territories", "Nova Scotia",
      "Nunavut", "Ontario", "Prince Edward Island", "Quebec", "Saskatchewan",
      "Yukon">>

\* the characters of each key, as code points: what a sort by name compares
NameChars ==
    "Alberta" :> <<65, 108, 98, 101, 114, 116, 97>> @@
    "British Columbia" :> <<66, 114, 105, 116, 105, 115, 104, 32, 67, 111, 108, 117, 109, 98, 105, 97>> @@
    "Manitoba" :> <<77, 97, 110, 105, 116, 111, 98, 97>> @@
    "New Brunswick" :> <<78, 101, 119, 32, 66, 114, 117, 110, 115, 119, 105, 99, 107>> @@
    "Newfoundland and Labrador" :> <<78, 101, 119, 102, 111, 117, 110, 100, 108, 97, 110, 100, 32, 97, 110, 100, 32, 76, 97, 98, 114, 97, 100, 111, 114>> @@
    "Northwest Territories" :> <<78, 111, 114, 116, 104, 119, 101, 115, 116, 32, 84, 101, 114, 114, 105, 116, 111, 114, 105, 101, 115>> @@
    "Nova Scotia" :> <<78, 111, 118, 97, 32, 83, 99, 111, 116, 105, 97>> @@
    "Nunavut" :> <<78, 117, 110, 97, 118, 117, 116>> @@
    "Ontario" :> <<79, 110, 116, 97, 114, 105, 111>> @@
    "Prince Edward Island" :> <<80, 114, 105, 110, 99, 101, 32, 69, 100, 119, 97, 114, 100, 32, 73, 115, 108, 97, 110, 100>> @@
    "Quebec" :> <<81, 117, 101, 98, 101, 99>> @@
    "Saskatchewan" :> <<83, 97, 115, 107, 97, 116, 99, 104, 101, 119, 97, 110>> @@
    "Yukon" :> <<89, 117, 107, 111, 110>>

CPP_RATE ==
    525

CPP_MAX ==
    Dollars(3500)

EI_RATE ==
    158

EI_MAX ==
    [d |-> 889, f |-> 5400]

\* every table calculate_tax is called with: the federal one and the 13 others
TableNames ==
    {"Federal"} \cup DOMAIN PROVINCIAL_TAX_INFO

TableOf(name) ==
    IF name = "Federal"
    THEN [brackets |-> FEDERAL_BRACKETS, rates |-> FEDERAL_RATES]
    ELSE PROVINCIAL_TAX_INFO[name]

-----------------------------------------------------------------------------
(* calculate_tax *)

MinOf(a, b) ==
    IF a <= b THEN a ELSE b

\* TaxLoop with the partial bracket taxed from 0 instead of last_bracket
RECURSIVE TaxLoop_NoLastBracket(_, _, _, _, _, _)
TaxLoop_NoLastBracket(inc, brackets, rates, i, tax, last_bracket) ==
    IF i > MinOf(Len(brackets), Len(rates))
    THEN [tax |-> tax, partial |-> FALSE, visited |-> i - 1]
    ELSE IF inc > brackets[i]
         THEN TaxLoop_NoLastBracket(inc, brackets, rates, i + 1,
                      MAdd(tax, MulRate(brackets[i] - last_bracket, rates[i])),
                      brackets[i])
         ELSE [tax |-> MAdd(tax, MulRate(inc, rates[i])),
               partial |-> TRUE, visited |-> i]

\* the for loop over zip(brackets, rates), from its i-th pair on; the result
\* also tells whether the else branch ran and how many boundaries were read
RECURSIVE TaxLoop(_, _, _, _, _, _)
TaxLoop(inc, brackets, rates, i, tax, last_bracket) ==
    IF i > MinOf(Len(brackets), Len(rates))
    THEN [tax |-> tax, partial |-> FALSE, visited |-> i - 1]
    ELSE IF inc > brackets[i]
         THEN TaxLoop(inc, brackets, rates, i + 1,
                      MAdd(tax, MulRate(brackets[i] - last_bracket, rates[i])),
                      brackets[i])
         ELSE [tax |-> MAdd(tax, MulRate(inc - last_bracket, rates[i])),
               partial |-> TRUE, visited |-> i]

\* one call of calculate_tax: the tax returned and the branches it took
TaxRun(inc, brackets, rates) ==
    LET loop == TaxLoop(inc, brackets, rates, 1, Dollars(0), 0)
        top == inc > brackets[Len(brackets)]
    IN  [income |-> inc,
         tax |-> IF top
                 THEN MAdd(loop.tax,
                           MulRate(inc - brackets[Len(brackets)], rates[Len(rates)]))
                 ELSE loop.tax,
         partial |-> loop.partial,
         top |-> top,
         visited |-> loop.visited]

calculate_tax(inc, brackets, rates) ==
    TaxRun(inc, brackets, rates).tax

-----------------------------------------------------------------------------
(* main(): the script Streamlit runs again on every interaction *)

\* the amounts that can be typed into st.number_input (min_value = 0.0);
\* the first MaxIncomeSamples of them are used
IncomeSamples ==
    <<0, 5000, 60000, 1000000, 9150, 109800, 1, 250000, 50197, 30000, 120000>>

EnteredIncomes ==
    {IncomeSamples[k] : k \in 1..MinOf(MaxIncomeSamples, Len(IncomeSamples))}

IncomeTypes ==
    {"Monthly", "Annual"}

OutputFrequencies ==
    {"Biweekly", "Monthly", "Yearly"}

\* if income_type == "Monthly": income *= 12
Annualize(t, x) ==
    IF t = "Monthly" THEN x * 12 ELSE x

\* CppContribution with the comparison turned round
CppContribution_Inverted(inc) ==
    IF MLess(CPP_MAX, MulRate(inc, CPP_RATE))
    THEN MulRate(inc, CPP_RATE)
    ELSE CPP_MAX

\* cpp = income * CPP_RATE if income * CPP_RATE < CPP_MAX else CPP_MAX
CppContribution(inc) ==
    IF MLess(MulRate(inc, CPP_RATE), CPP_MAX)
    THEN MulRate(inc, CPP_RATE)
    ELSE CPP_MAX

\* ei = income * EI_RATE if income * EI_RATE < EI_MAX else EI_MAX
EiContribution(inc) ==
    IF MLess(MulRate(inc, EI_RATE), EI_MAX)
    THEN MulRate(inc, EI_RATE)
    ELSE EI_MAX

\* total_deductions = federal_tax + provincial_tax + cpp + ei
TotalDeductions(fed, prov, c, e) ==
    MAdd(MAdd(MAdd(fed, prov), c), e)

\* NetIncome with the operands of the subtraction exchanged
NetIncome_Reversed(inc, fed, prov, c, e) ==
    MSub(TotalDeductions(fed, prov, c, e), Dollars(inc))

\* net_income = income - total_deductions
NetIncome(inc, fed, prov, c, e) ==
    MSub(Dollars(inc), TotalDeductions(fed, prov, c, e))

\* FrequencyFactor with 24 pay periods for Biweekly and 1 for Monthly
FrequencyFactor_Wrong(f) ==
    CASE f = "Yearly" -> 1
      [] f = "Monthly" -> 1
      [] f = "Biweekly" -> 24

\* {'Yearly': 1, 'Monthly': 12, 'Biweekly': 26}[output_frequency]
FrequencyFactor(f) ==
    CASE f = "Yearly" -> 1
      [] f = "Monthly" -> 12
      [] f = "Biweekly" -> 26

\* x * multiplier, with multiplier = 1 / frequency_factor
TimesMultiplier(x, factor) ==
    Scaled(x, factor)

\* the format ":.2f": the amounts in cents nearest to amt / div.  The source
\* formats a binary float, so an exact half cent goes to either neighbour.
Format2(x) ==
    LET hundredDiv == 100 * x.div
        qd == x.amt.d \div x.div
        rd == x.amt.d % x.div
        rest == 10000 * rd + x.amt.f
        lo == 100 * qd + (rest \div hundredDiv)
        rem == rest % hundredDiv
    IN  IF 2 * rem < hundredDiv THEN {lo}
        ELSE IF 2 * rem > hundredDiv THEN {lo + 1}
        ELSE {lo, lo + 1}

\* one st.write: "<frequency> <label> [(in) <province>]: $<cents / 100>"
Line(f, label, p, cents) ==
    [frequency |-> f, label |-> label, province |-> p, cents |-> cents]

\* ComparisonNet that leaves the two contributions out
ComparisonNet_NoContributions(inc, fed, prov_tax, c, e) ==
    MSub(Dollars(inc), MAdd(fed, prov_tax))

\* net = income - (federal_tax + prov_tax + cpp + ei) for one table entry
ComparisonNet(inc, fed, prov_tax, c, e) ==
    MSub(Dollars(inc), MAdd(MAdd(MAdd(fed, prov_tax), c), e))

\* the loop over PROVINCIAL_TAX_INFO.items(), from the i-th key on
RECURSIVE Results(_, _, _, _, _, _)
Results(inc, fed, c, e, factor, i) ==
    IF i > Len(ProvinceKeys)
    THEN <<>>
    ELSE LET prov == ProvinceKeys[i]
             tax_info == PROVINCIAL_TAX_INFO[prov]
             prov_tax == calculate_tax(inc, tax_info.brackets, tax_info.rates)
             net == ComparisonNet(inc, fed, prov_tax, c, e)
         IN  <<[Province |-> prov, NetIncome |-> TimesMultiplier(net, factor)]>>
             \o Results(inc, fed, c, e, factor, i + 1)

\* string comparison of two names, character by character
LexLess(a, b) ==
    \E k \in 1..(MinOf(Len(a), Len(b)) + 1) :
        /\ \A j \in 1..(k - 1) : a[j] = b[j]
        /\ \/ k > Len(a) /\ k <= Len(b)
           \/ k <= Len(a) /\ k <= Len(b) /\ a[k] < b[k]

RECURSIVE InsertRow(_, _)
InsertRow(row, sorted) ==
    IF sorted = <<>>
    THEN <<row>>
    ELSE IF LexLess(NameChars[Head(sorted).Province], NameChars[row.Province])
         THEN <<Head(sorted)>> \o InsertRow(row, Tail(sorted))
         ELSE <<row>> \o sorted

\* df.sort_values(by="Province")
RECURSIVE SortValues(_)
SortValues(rows) ==
    IF rows = <<>>
    THEN <<>>
    ELSE InsertRow(rows[Len(rows)], SortValues(SubSeq(rows, 1, Len(rows) - 1)))

\* One run of the script with the widgets at the values given; clicked is
\* what st.button returns in this run.  Without a click nothing is computed
\* and nothing is put on the page (the locals then hold zeros in the model).
RunScript(p, t, x, f, sf, sp, sc, se, clicked) ==
    LET inc == Annualize(t, x)
        fed == calculate_tax(inc, FEDERAL_BRACKETS, FEDERAL_RATES)
        prov == calculate_tax(inc, PROVINCIAL_TAX_INFO[p].brackets,
                              PROVINCIAL_TAX_INFO[p].rates)
        c == CppContribution(inc)
        e == EiContribution(inc)
        net == NetIncome(inc, fed, prov, c, e)
        factor == FrequencyFactor(f)
    IN  /\ province' = p
        /\ income_type' = t
        /\ income_input' = x
        /\ output_frequency' = f
        /\ show_federal_tax' = sf
        /\ show_prov_tax' = sp
        /\ show_cpp' = sc
        /\ show_ei' = se
        /\ button' = clicked
        /\ income' = inc
        /\ IF clicked
           THEN /\ federal_tax' = fed
                /\ provincial_tax' = prov
                /\ cpp' = c
                /\ ei' = e
                /\ net_income' = net
                /\ frequency_factor' = factor
                /\ \E fcents \in Format2(TimesMultiplier(fed, factor)),
                      pcents \in Format2(TimesMultiplier(prov, factor)),
                      ccents \in Format2(TimesMultiplier(c, factor)),
                      ecents \in Format2(TimesMultiplier(e, factor)),
                      ncents \in Format2(TimesMultiplier(net, factor)) :
                      written' =
                          (IF sf THEN <<Line(f, "Federal Tax", "", fcents)>> ELSE <<>>)
                          \o (IF sp THEN <<Line(f, "Provincial Tax", p, pcents)>> ELSE <<>>)
                          \o (IF sc THEN <<Line(f, "CPP Contributions", "", ccents)>> ELSE <<>>)
                          \o (IF se THEN <<Line(f, "EI Contributions", "", ecents)>> ELSE <<>>)
                          \o <<Line(f, "Net Income", p, ncents)>>
                /\ df' = SortValues(Results(inc, fed, c, e, factor, 1))
           ELSE /\ federal_tax' = Dollars(0)
                /\ provincial_tax' = Dollars(0)
                /\ cpp' = Dollars(0)
                /\ ei' = Dollars(0)
                /\ net_income' = Dollars(0)
                /\ frequency_factor' = 1
                /\ written' = <<>>
                /\ df' = <<>>
        /\ UNCHANGED taxVars

SelectProvince(p) ==
    /\ p # province
    /\ RunScript(p, income_type, income_input, output_frequency,
                 show_federal_tax, show_prov_tax, show_cpp, show_ei, FALSE)

SelectIncomeType(t) ==
    /\ t # income_type
    /\ RunScript(province, t, income_input, output_frequency,
                 show_federal_tax, show_prov_tax, show_cpp, show_ei, FALSE)

EnterIncome(x) ==
    /\ x # income_input
    /\ RunScript(province, income_type, x, output_frequency,
                 show_federal_tax, show_prov_tax, show_cpp, show_ei, FALSE)

SelectOutputFrequency(f) ==
    /\ f # output_frequency
    /\ RunScript(province, income_type, income_input, f,
                 show_federal_tax, show_prov_tax, show_cpp, show_ei, FALSE)

ToggleShowFederalTax ==
    RunScript(province, income_type, income_input, output_frequency,
              ~show_federal_tax, show_prov_tax, show_cpp, show_ei, FALSE)

ToggleShowProvTax ==
    RunScript(province, income_type, income_input, output_frequency,
              show_federal_tax, ~show_prov_tax, show_cpp, show_ei, FALSE)

ToggleShowCpp ==
    RunScript(province, income_type, income_input, output_frequency,
              show_federal_tax, show_prov_tax, ~show_cpp, show_ei, FALSE)

ToggleShowEi ==
    RunScript(province, income_type, income_input, output_frequency,
              show_federal_tax, show_prov_tax, show_cpp, ~show_ei, FALSE)

\* st.button('Calculate Taxes') pressed
ClickCalculate ==
    RunScript(province, income_type, income_input, output_frequency,
              show_federal_tax, show_prov_tax, show_cpp, show_ei, TRUE)

-----------------------------------------------------------------------------
(* Direct calls of calculate_tax on a registered table *)

\* the incomes tried on a table: the scenario incomes and every income
\* within MaxDelta dollars of one of its thresholds
TaxIncomes(brackets) ==
    {0, 60000, 1000000} \cup
    {brackets[k] + e : k \in DOMAIN brackets, e \in (0 - MaxDelta)..MaxDelta}

UIInit ==
    /\ province = ProvinceKeys[1]
    /\ income_type = "Monthly"
    /\ income_input = 0
    /\ output_frequency = "Biweekly"
    /\ show_federal_tax = TRUE
    /\ show_prov_tax = TRUE
    /\ show_cpp = TRUE
    /\ show_ei = TRUE
    /\ button = FALSE
    /\ income = 0
    /\ federal_tax = Dollars(0)
    /\ provincial_tax = Dollars(0)
    /\ cpp = Dollars(0)
    /\ ei = Dollars(0)
    /\ net_income = Dollars(0)
    /\ frequency_factor = 1
    /\ written = <<>>
    /\ df = <<>>

Init ==
    /\ UIInit
    /\ table = "Federal"
    /\ calls = <<>>

Next ==
    \/ \E p \in DOMAIN PROVINCIAL_TAX_INFO : SelectProvince(p)
    \/ \E t \in IncomeTypes : SelectIncomeType(t)
    \/ \E x \in EnteredIncomes : EnterIncome(x)
    \/ \E f \in OutputFrequencies : SelectOutputFrequency(f)
    \/ ToggleShowFederalTax
    \/ ToggleShowProvTax
    \/ ToggleShowCpp
    \/ ToggleShowEi
    \/ ClickCalculate

Spec ==
    Init /\ [][Next]_vars

InitTax ==
    /\ UIInit
    /\ table \in TableNames
    /\ calls = <<>>

\* calculate_tax(x, brackets, rates) on the table chosen; the model keeps the
\* last MaxCalls calls so that two calls can be compared
CallTax(x) ==
    /\ calls' =
         LET run == TaxRun(x, TableOf(table).brackets, TableOf(table).rates)
         IN  IF Len(calls) < MaxCalls
             THEN Append(calls, run)
             ELSE Append(Tail(calls), run)
    /\ UNCHANGED <<table, uiVars>>

NextTax ==
    \E x \in TaxIncomes(TableOf(table).brackets) : CallTax(x)

SpecTax ==
    InitTax /\ [][NextTax]_vars

-----------------------------------------------------------------------------
(* Claims about calculate_tax and the tables *)

MaxOf(a, b) ==
    IF a >= b THEN a ELSE b

\* the marginal-rate integral from bracket i on: bracket i spans from the
\* previous threshold (lo) to brackets[i], the last bracket is unbounded
RECURSIVE IntegralFrom(_, _, _, _, _)
IntegralFrom(inc, brackets, rates, i, lo) ==
    IF i > Len(brackets)
    THEN MulRate(MaxOf(0, inc - lo), rates[Len(rates)])
    ELSE MAdd(MulRate(MaxOf(0, MinOf(inc, brackets[i]) - lo), rates[i]),
              IntegralFrom(inc, brackets, rates, i + 1, brackets[i]))

MarginalIntegral(inc, brackets, rates) ==
    IntegralFrom(inc, brackets, rates, 1, 0)

WellFormed(brackets, rates) ==
    /\ \A k \in DOMAIN brackets : brackets[k] > 0
    /\ \A k \in 1..(Len(brackets) - 1) : brackets[k] < brackets[k + 1]
    /\ Len(rates) = Len(brackets) + 1

\* C1: on every registered table and every non-negative income,
\* calculate_tax returns the marginal-rate integral: the sum over the
\* brackets of the bracket's rate times the part of the income inside it.
C1_MarginalIntegral ==
    \A k \in DOMAIN calls :
        calls[k].tax = MarginalIntegral(calls[k].income,
                                        TableOf(table).brackets,
                                        TableOf(table).rates)

\* C2: on every registered table calculate_tax is monotonically
\* non-decreasing in income: a <= b implies tax(a) <= tax(b).
C2_Monotone ==
    \A j, k \in DOMAIN calls :
        calls[j].income <= calls[k].income => MLeq(calls[j].tax, calls[k].tax)

\* C3: every table of the program is well-formed: thresholds positive and
\* strictly increasing, and exactly one more rate than thresholds.
C3_TablesWellFormed ==
    WellFormed(TableOf(table).brackets, TableOf(table).rates)

\* C9: in one call the in-loop partial-bracket branch and the post-loop
\* top-rate increment never both run; the increment runs only when income
\* exceeded every boundary the loop visited; an income above brackets[-1]
\* never takes the partial-bracket branch.
C9_TerminalStepsExclusive ==
    \A k \in DOMAIN calls :
        LET c == calls[k]
            brackets == TableOf(table).brackets
        IN  /\ ~(c.partial /\ c.top)
            /\ c.top => \A v \in 1..c.visited : c.income > brackets[v]
            /\ c.income > brackets[Len(brackets)] => ~c.partial

-----------------------------------------------------------------------------
(* Claims about main() *)

MMin(a, b) ==
    IF MLeq(a, b) THEN a ELSE b

\* the divisor the claims give for each output frequency
ClaimDivisor(f) ==
    CASE f = "Yearly" -> 1
      [] f = "Monthly" -> 12
      [] f = "Biweekly" -> 26

\* the yearly amount behind a written line
YearlyFigure(label) ==
    CASE label = "Federal Tax" -> federal_tax
      [] label = "Provincial Tax" -> provincial_tax
      [] label = "CPP Contributions" -> cpp
      [] label = "EI Contributions" -> ei
      [] label = "Net Income" -> net_income

\* | cents / 100 - yearly / div | <= half a cent
WithinHalfCent(cents, yearly, div) ==
    LET shown == MScale([d |-> cents \div 100, f |-> (cents % 100) * 100], div)
        half == [d |-> 0, f |-> 50 * div]
    IN  /\ MLeq(MSub(shown, yearly), half)
        /\ MLeq(MSub(yearly, shown), half)

\* income - (federal tax + that province's tax + CPP + EI), from the locals
YearlyNetIn(p) ==
    MSub(Dollars(income),
         MAdd(MAdd(federal_tax,
                   calculate_tax(income, PROVINCIAL_TAX_INFO[p].brackets,
                                 PROVINCIAL_TAX_INFO[p].rates)),
              MAdd(cpp, ei)))

\* C4: for every annual income, CPP = min(income * 0.0525, 3500) and
\* EI = min(income * 0.0158, 889.54); neither exceeds its cap, and at
\* income 1,000,000 they are exactly 3500 and 889.54.
C4_ContributionsCapped ==
    button =>
        /\ cpp = MMin(MulRate(income, 525), Dollars(3500))
        /\ ei = MMin(MulRate(income, 158), [d |-> 889, f |-> 5400])
        /\ MLeq(cpp, Dollars(3500))
        /\ MLeq(ei, [d |-> 889, f |-> 5400])
        /\ income = 1000000 =>
               cpp = Dollars(3500) /\ ei = [d |-> 889, f |-> 5400]

\* a calculation at income 1,000,000 with both contributions at their caps
C4_Witness ==
    /\ button
    /\ income = 1000000
    /\ cpp = Dollars(3500)
    /\ ei = [d |-> 889, f |-> 5400]

\* a calculation where both contributions are below their caps
C4_WitnessBelowCap ==
    /\ button
    /\ income = 5000
    /\ MLess(cpp, Dollars(3500))
    /\ MLess(ei, [d |-> 889, f |-> 5400])

\* C5: the comparison table has exactly one row per key of
\* PROVINCIAL_TAX_INFO (13 rows), ordered by province name, and the row of
\* the selected province carries the scaled net income of the primary
\* 'Net Income' figure: (income - federal tax - that province's tax - CPP -
\* EI) times the frequency multiplier, which the primary line prints rounded
\* to the cent.
C5_ComparisonTable ==
    button =>
        /\ Len(df) = 13
        /\ \A p \in DOMAIN PROVINCIAL_TAX_INFO :
               Cardinality({k \in DOMAIN df : df[k].Province = p}) = 1
        /\ \A j, k \in DOMAIN df :
               j < k => LexLess(NameChars[df[j].Province], NameChars[df[k].Province])
        /\ \A k \in DOMAIN df :
               df[k].Province = province =>
                   /\ RatEq(df[k].NetIncome,
                            Scaled(MSub(Dollars(income),
                                        MAdd(MAdd(federal_tax, provincial_tax),
                                             MAdd(cpp, ei))),
                                   ClaimDivisor(output_frequency)))
                   /\ RatEq(df[k].NetIncome, Scaled(net_income, frequency_factor))
                   /\ written[Len(written)].label = "Net Income"
                   /\ written[Len(written)].province = province
                   /\ WithinHalfCent(written[Len(written)].cents,
                                     df[k].NetIncome.amt, df[k].NetIncome.div)

\* a Monthly calculation for Quebec at 60000 a year, table on the page
C5_Witness ==
    /\ button
    /\ province = "Quebec"
    /\ output_frequency = "Monthly"
    /\ income = 60000
    /\ Len(df) = 13
    /\ \E k \in DOMAIN df : df[k].Province = "Quebec"

\* C6 as amended: the divisor depends only on the output frequency (1, 12,
\* 26), whether the income was typed as Monthly (then times 12) or Annual.
\* Every figure handed to the page is the yearly figure divided by it: the
\* comparison-table net incomes exactly, the written lines after rounding to
\* the cent (within half a cent of yearly / divisor).
C6_FrequencyLinear ==
    button =>
        /\ income = (IF income_type = "Monthly" THEN 12 * income_input ELSE income_input)
        /\ \A k \in DOMAIN written :
               /\ written[k].frequency = output_frequency
               /\ WithinHalfCent(written[k].cents, YearlyFigure(written[k].label),
                                 ClaimDivisor(output_frequency))
        /\ \A k \in DOMAIN df :
               RatEq(df[k].NetIncome,
                     Scaled(YearlyNetIn(df[k].Province), ClaimDivisor(output_frequency)))

\* a Biweekly calculation of an income typed as Monthly, all lines shown
C6_Witness ==
    /\ button
    /\ income_type = "Monthly"
    /\ income_input = 5000
    /\ output_frequency = "Biweekly"
    /\ Len(written) = 5
    /\ Len(df) = 13

\* C6 as claimed: every displayed figure at Monthly (Biweekly) equals the
\* displayed Yearly figure divided by 12 (26).
C6_DisplayedFiguresLinear ==
    button =>
        \A k \in DOMAIN written :
            \E yearlyCents \in Format2(Scaled(YearlyFigure(written[k].label), 1)) :
                written[k].cents * ClaimDivisor(output_frequency) = yearlyCents

\* C10: total deductions never exceed income: 0 <= net_income <= income with
\* net_income = income - (federal tax + provincial tax + CPP + EI), and the
\* same bound for every row of the comparison table.
C10_NetWithinIncome ==
    button =>
        /\ net_income = MSub(Dollars(income),
                             MAdd(MAdd(federal_tax, provincial_tax), MAdd(cpp, ei)))
        /\ MLeq(Dollars(0), net_income)
        /\ MLeq(net_income, Dollars(income))
        /\ \A k \in DOMAIN df :
               /\ MLeq(Dollars(0), df[k].NetIncome.amt)
               /\ MLeq(df[k].NetIncome.amt, Dollars(income))
               /\ df[k].NetIncome.div >= 1

\* a calculation for Quebec at an income above every threshold
C10_Witness ==
    /\ button
    /\ province = "Quebec"
    /\ income >= 1000000
    /\ MLess(Dollars(0), net_income)
    /\ MLess(net_income, Dollars(income))
    /\ Len(df) = 13

\* C7 as amended: on the federal table calculate_tax(60000) returns
\* 50197 * 0.15 + (60000 - 50197) * 0.205, whose terms are 7529.55 and
\* 2009.615 and whose total is 9539.165 (9539.16 or 9539.17 to the cent).
C7_FederalAt60000 ==
    \A k \in DOMAIN calls :
        (table = "Federal" /\ calls[k].income = 60000) =>
            /\ calls[k].tax = MAdd(MulRate(50197, 1500), MulRate(60000 - 50197, 2050))
            /\ MulRate(50197, 1500) = [d |-> 7529, f |-> 5500]
            /\ MulRate(60000 - 50197, 2050) = [d |-> 2009, f |-> 6150]
            /\ calls[k].tax = [d |-> 9539, f |-> 1650]
            /\ Format2(Scaled(calls[k].tax, 1)) \subseteq {953916, 953917}

\* calculate_tax has been called with 60000 on the federal table
C7_Witness ==
    /\ table = "Federal"
    /\ \E k \in DOMAIN calls : calls[k].income = 60000 /\ calls[k].partial

\* C7 as claimed: the two terms are 7529.55 and 2010.37 and the total is
\* 9539.92 to the cent.
C7_TotalAsClaimed ==
    \A k \in DOMAIN calls :
        (table = "Federal" /\ calls[k].income = 60000) =>
            /\ calls[k].tax = MAdd(MulRate(50197, 1500), MulRate(60000 - 50197, 2050))
            /\ 752955 \in Format2(Scaled(MulRate(50197, 1500), 1))
            /\ 201037 \in Format2(Scaled(MulRate(60000 - 50197, 2050), 1))
            /\ 953992 \in Format2(Scaled(calls[k].tax, 1))

====
